---------------------------- MODULE Spec2Model ----------------------------
(***************************************************************************)
(* Model of the snapshot ingestion and ticker ranking server               *)
(* (src/server.ts, class TwitterTrendsServer).                             *)
(*                                                                         *)
(* Strings are sequences of tokens (Seq(STRING)): a token is a character   *)
(* or an indivisible run of characters ("https", "x.com", "2h", "gm").     *)
(* A JavaScript undefined/null (SQL NULL) is the reserved sequence Absent. *)
(***************************************************************************)
EXTENDS Integers, Sequences, FiniteSets, TLC

Absent == <<"<undefined>">>

Min(S) == CHOOSE x \in S : \A y \in S : x <= y
Max(S) == CHOOSE x \in S : \A y \in S : x >= y

(***************************************************************************)
(* String primitives                                                       *)
(***************************************************************************)

\* String.prototype.toLowerCase on one token.
LowerTok(t) ==
  CASE t = "HTTPS" -> "https"
    [] t = "X.COM" -> "x.com"
    [] t = "Twitter" -> "twitter"
    [] t = "REFUSED TO CONNECT" -> "refused to connect"
    [] t = "This site can't be reached" -> "this site can't be reached"
    [] t = "This site cant be reached" -> "this site cant be reached"
    [] t = "Checking the connection" -> "checking the connection"
    [] t = "DNS address not found" -> "dns address not found"
    [] OTHER -> t

toLowerCase(s) == [i \in 1..Len(s) |-> LowerTok(s[i])]

\* String.prototype.toUpperCase on one character of a ticker.
UpperTok(t) ==
  CASE t = "a" -> "A"
    [] t = "b" -> "B"
    [] OTHER -> t

toUpperCase(s) == [i \in 1..Len(s) |-> UpperTok(s[i])]

\* \s of the regular expressions: the space and the line break.
IsWs(t) == t \in {" ", "\n"}

\* String.prototype.trim.
Trim(s) ==
  LET idx == {i \in 1..Len(s) : ~IsWs(s[i])}
  IN IF idx = {} THEN <<>> ELSE SubSeq(s, Min(idx), Max(idx))

\* JavaScript truthiness of a string-or-undefined value.
Truthy(s) == s # Absent /\ s # <<>>

\* a || b
OrElse(a, b) == IF Truthy(a) THEN a ELSE b

(***************************************************************************)
(* UrlPlatformGuard: isAllowedUrl                                          *)
(***************************************************************************)

ALLOWED_HOSTS == {"x.com", "twitter.com"}

Schemes == {"https", "http", "HTTPS"}

\* new URL(raw): "throw" when raw is no absolute URL, else the parsed
\* hostname (the URL parser lower-cases the host).  An absolute URL is
\* scheme "://" [userinfo "@"] host [":" port] [rest...].
ParseUrlHostname(raw) ==
  IF raw = Absent \/ Len(raw) < 3 THEN "throw"
  ELSE IF ~(raw[1] \in Schemes /\ raw[2] = "://") THEN "throw"
  ELSE IF Len(raw) >= 5 /\ raw[4] = "@" THEN LowerTok(raw[5])
  ELSE LowerTok(raw[3])

isAllowedUrl(raw) ==
  LET h == ParseUrlHostname(raw)
  IN IF h = "throw" THEN FALSE ELSE LowerTok(h) \in ALLOWED_HOSTS

(***************************************************************************)
(* PostValidator: isValidPost                                              *)
(***************************************************************************)

\* ERROR_TEXT_PATTERNS: for each regular expression, the lower-cased
\* phrases of the vocabulary it matches (all four carry the i flag).
ERROR_TEXT_PATTERNS ==
  << {"this site can't be reached", "this site cant be reached"},
     {"refused to connect"},
     {"checking the connection"},
     {"dns address not found"} >>

\* rx.test(t): the pattern occurs somewhere in t.
RxTest(k, t) == \E i \in 1..Len(t) : LowerTok(t[i]) \in ERROR_TEXT_PATTERNS[k]

isValidPostNoErrorScan(post, url, platform) ==
  /\ platform # Absent
  /\ toLowerCase(platform) = <<"twitter">>
  /\ isAllowedUrl(url)
  /\ post.role = <<"article">>
  /\ Trim(OrElse(post.text, <<>>)) # <<>>

isValidPost(post, url, platform) ==
  IF platform = Absent \/ toLowerCase(platform) # <<"twitter">> THEN FALSE
  ELSE IF ~isAllowedUrl(url) THEN FALSE
  ELSE IF post.role # <<"article">> THEN FALSE
  ELSE LET t == Trim(OrElse(post.text, <<>>))
       IN IF t = <<>> THEN FALSE
          ELSE IF \E k \in 1..Len(ERROR_TEXT_PATTERNS) : RxTest(k, t) THEN FALSE
          ELSE TRUE

(***************************************************************************)
(* TextSanitizer: stripRelativeTime                                        *)
(*                                                                         *)
(* The text vocabulary is: " " (a separator that is also \s), "\n" (\s but *)
(* no separator), whole time tokens, and words.  Every token other than    *)
(* the two white-space ones starts and ends with a word character, so the  *)
(* \b of TIME_TOKEN_RE holds at a time token's edge exactly when its       *)
(* neighbour there is white space or the text's boundary.                  *)
(***************************************************************************)

\* Strings that TIME_TOKEN_RE matches from their first to their last character.
TIME_TOKENS == {"2h", "3 days ago", "just now"}

\* TIME_TOKEN_RE matches at token i of s (both \b hold).
IsTimeAt(s, i) ==
  /\ s[i] \in TIME_TOKENS
  /\ (i = 1 \/ IsWs(s[i - 1]))
  /\ (i = Len(s) \/ IsWs(s[i + 1]))

\* First index >= i of a token that is not white space (Len(s)+1 if none).
SkipWs(s, i) ==
  LET idx == {k \in i..Len(s) : ~IsWs(s[k])}
  IN IF idx = {} THEN Len(s) + 1 ELSE Min(idx)

\* Last index <= j of a token that is not white space (0 if none).
SkipWsBack(s, j) ==
  LET idx == {k \in 1..j : ~IsWs(s[k])}
  IN IF idx = {} THEN 0 ELSE Max(idx)

RECURSIVE Split(_, _)
\* String.prototype.split on a one-token delimiter.
Split(s, d) ==
  LET at == {k \in 1..Len(s) : s[k] = d}
  IN IF at = {} THEN <<s>>
     ELSE <<SubSeq(s, 1, Min(at) - 1)>> \o Split(SubSeq(s, Min(at) + 1, Len(s)), d)

\* text.split(/\r?\n/)
SplitLines(s) == Split(s, "\n")

RECURSIVE JoinLines(_)
\* lines.join('\n')
JoinLines(ls) ==
  IF Len(ls) = 0 THEN <<>>
  ELSE IF Len(ls) = 1 THEN ls[1]
  ELSE ls[1] \o <<"\n">> \o JoinLines(Tail(ls))

\* timeOnlyLine.test(l): the line is one time token within optional spaces.
timeOnlyLine(l) ==
  LET nz == SelectSeq(l, LAMBDA t : t # " ")
  IN Len(nz) = 1 /\ nz[1] \in TIME_TOKENS

\* result.replace(edge, ''): the first match only (no g flag).  The first
\* alternative is anchored at the start and wins when it matches; else the
\* second one, anchored at the end, matches from the left-most place it can.
edge(r) ==
  LET i == SkipWs(r, 1)
      j == SkipWsBack(r, Len(r))
  IN IF i <= Len(r) /\ IsTimeAt(r, i)
       THEN SubSeq(r, SkipWs(r, i + 1), Len(r))
     ELSE IF j >= 1 /\ IsTimeAt(r, j)
       THEN SubSeq(r, 1, SkipWsBack(r, j - 1))
     ELSE r

\* End (exclusive) of the match of `anywhere` that starts at p, or 0.  A match
\* starts at the text's start or at a separator, runs over white space to a
\* time token and over the white space after it as far as the look-ahead
\* (a separator, or the end of the text) allows.
AnywhereMatchEnd(r, p) ==
  IF ~(p = 1 \/ r[p] = " ") THEN 0
  ELSE LET i == SkipWs(r, p)
       IN IF ~(i <= Len(r) /\ IsTimeAt(r, i)) THEN 0
          ELSE LET j == SkipWs(r, i + 1)
                   es == {e \in (i + 1)..(j - 1) : r[e] = " "}
               IN IF j = Len(r) + 1 THEN j
                  ELSE IF es = {} THEN 0
                  ELSE Max(es)

RECURSIVE AnywhereFrom(_, _)
AnywhereFrom(r, p) ==
  IF p > Len(r) THEN <<>>
  ELSE LET m == AnywhereMatchEnd(r, p)
       IN IF m > p THEN <<" ">> \o AnywhereFrom(r, m)
          ELSE <<r[p]>> \o AnywhereFrom(r, p + 1)

\* result.replace(anywhere, ' ') with the g flag.
anywhere(r) == AnywhereFrom(r, 1)

RECURSIVE CollapseFrom(_, _)
CollapseFrom(r, p) ==
  IF p > Len(r) THEN <<>>
  ELSE IF IsWs(r[p])
    THEN LET j == SkipWs(r, p)
         IN (IF j - p >= 2 THEN <<" ">> ELSE <<r[p]>>) \o CollapseFrom(r, j)
    ELSE <<r[p]>> \o CollapseFrom(r, p + 1)

\* result.replace(/\s{2,}/g, ' ')
CollapseWs(r) == CollapseFrom(r, 1)

stripRelativeTime(text) ==
  IF ~Truthy(text) THEN text
  ELSE LET kept == SelectSeq(SplitLines(text), LAMBDA l : ~timeOnlyLine(l))
       IN Trim(CollapseWs(anywhere(edge(JoinLines(kept)))))

(***************************************************************************)
(* ContentFingerprinter: hashPost                                          *)
(***************************************************************************)

\* Array.prototype.join renders undefined and null as the empty string.
JoinField(s) == IF s = Absent THEN <<>> ELSE s

\* sha256 is taken to be injective: the digest is the hashed string itself.
hashPost(sessionId, url, nodeId, text) ==
  JoinField(sessionId) \o <<"|">> \o JoinField(url) \o <<"|">>
    \o JoinField(nodeId) \o <<"|">> \o Trim(text)

(***************************************************************************)
(* JSON text of the tickers column                                         *)
(*                                                                         *)
(* A JavaScript tickers value is [t, arr, str]: t = "undef" (absent),      *)
(* "arr" (an array, its elements in arr) or "str" (a string, in str).  An  *)
(* array element is [t, v] with t = "str" or "num".  JSON text is a token  *)
(* sequence over "[", "]", ",", the double quote and plain characters.     *)
(***************************************************************************)

NoTickers == [t |-> "undef", arr |-> <<>>, str |-> <<>>]
TickerArray(es) == [t |-> "arr", arr |-> es, str |-> <<>>]
TickerString(cs) == [t |-> "str", arr |-> <<>>, str |-> cs]
StrElem(cs) == [t |-> "str", v |-> cs]
NumElem(ds) == [t |-> "num", v |-> ds]

Digits == {"0", "5"}
Quote == "\""

ElemText(e) == IF e.t = "str" THEN <<Quote>> \o e.v \o <<Quote>> ELSE e.v

RECURSIVE JoinElems(_)
JoinElems(es) ==
  IF Len(es) = 0 THEN <<>>
  ELSE IF Len(es) = 1 THEN ElemText(es[1])
  ELSE ElemText(es[1]) \o <<",">> \o JoinElems(Tail(es))

\* JSON.stringify(post.tickers || []): an empty array is truthy, an empty
\* string is not.
StringifyTickers(tk) ==
  IF tk.t = "arr" THEN <<"[">> \o JoinElems(tk.arr) \o <<"]">>
  ELSE IF tk.t = "str" /\ tk.str # <<>> THEN <<Quote>> \o tk.str \o <<Quote>>
  ELSE <<"[", "]">>

\* One JSON scalar: a string literal, a number, or a syntax error.
ParseElem(ts) ==
  IF Len(ts) >= 2 /\ ts[1] = Quote /\ ts[Len(ts)] = Quote
       /\ \A i \in 2..(Len(ts) - 1) : ts[i] \notin {Quote, "[", "]", ","}
    THEN [t |-> "str", v |-> SubSeq(ts, 2, Len(ts) - 1)]
  ELSE IF Len(ts) >= 1 /\ \A i \in 1..Len(ts) : ts[i] \in Digits
    THEN [t |-> "num", v |-> ts]
  ELSE [t |-> "throw", v |-> <<>>]

\* JSON.parse(text): [t, arr] with t = "arr" (arr holds the elements),
\* "scalar" (a string or a number) or "throw" (SyntaxError).
JsonParse(text) ==
  IF Len(text) >= 2 /\ text[1] = "[" /\ text[Len(text)] = "]"
    THEN LET inner == SubSeq(text, 2, Len(text) - 1)
             parts == Split(inner, ",")
             es == [i \in 1..Len(parts) |-> ParseElem(parts[i])]
         IN IF inner = <<>> THEN [t |-> "arr", arr |-> <<>>]
            ELSE IF \E i \in 1..Len(es) : es[i].t = "throw"
              THEN [t |-> "throw", arr |-> <<>>]
            ELSE [t |-> "arr", arr |-> es]
  ELSE IF ParseElem(text).t = "throw" THEN [t |-> "throw", arr |-> <<>>]
  ELSE [t |-> "scalar", arr |-> <<>>]

\* SQL json_extract(tickers, '$'): an array comes back as its JSON text, a
\* string as its characters without the quotes, a number as the number.
JsonExtractRoot(text) ==
  IF Len(text) >= 2 /\ text[1] = Quote /\ text[Len(text)] = Quote
    THEN SubSeq(text, 2, Len(text) - 1)
  ELSE text

(***************************************************************************)
(* Inputs: raw posts, links and snapshots (the request bodies)             *)
(***************************************************************************)

RawPost(nodeId, role, text, sentiment, tickers) ==
  [nodeId |-> nodeId, role |-> role, text |-> text,
   sentiment |-> sentiment, tickers |-> tickers]

RawLink(nodeId, text, url, role) ==
  [nodeId |-> nodeId, text |-> text, url |-> url, role |-> role]

\* The body of POST /api/snapshots.  hasExtracted, hasPosts and hasLinks say
\* whether extractedData, extractedData.posts and extractedData.links exist.
Snapshot(sessionId, timestamp, url, title, platform, posts, links) ==
  [sessionId |-> sessionId, timestamp |-> timestamp, url |-> url,
   title |-> title, socialPlatform |-> platform,
   hasExtracted |-> TRUE, hasPosts |-> TRUE, posts |-> posts,
   hasLinks |-> TRUE, links |-> links]

(***************************************************************************)
(* Storage: the three tables of initializeDatabase                         *)
(***************************************************************************)

VARIABLES
  snapshots,   \* table snapshots: rows in rowid order
  posts,       \* table posts: rows in rowid order
  links,       \* table links: rows in rowid order
  dbUp,        \* whether the database file can be written
  calls,       \* the POST /api/snapshots requests received, in arrival order
  upsertLog    \* the calls whose summary upsert was applied, in that order

IsNull(v) == v = Absent

\* INSERT OR REPLACE INTO snapshots: a NULL in a NOT NULL column without a
\* default aborts the statement; a row with the same sessionId (UNIQUE) is
\* deleted before the new row is inserted.
SummaryInsertable(row) ==
  ~(IsNull(row.sessionId) \/ IsNull(row.timestamp) \/ IsNull(row.url)
      \/ IsNull(row.title) \/ IsNull(row.platform))

UpsertSummaryKeepFirst(table, row) ==
  IF \E i \in 1..Len(table) : table[i].sessionId = row.sessionId
    THEN table ELSE Append(table, row)

UpsertSummary(table, row) ==
  Append(SelectSeq(table, LAMBDA r : r.sessionId # row.sessionId), row)

\* INSERT OR IGNORE INTO posts: the row is skipped when a NOT NULL column
\* is NULL or content_hash (UNIQUE) is already stored.
PostInsertable(table, row) ==
  /\ ~(IsNull(row.sessionId) \/ IsNull(row.timestamp) \/ IsNull(row.url)
         \/ IsNull(row.title) \/ IsNull(row.nodeId) \/ IsNull(row.role)
         \/ IsNull(row.text) \/ IsNull(row.sentiment))
  /\ \A i \in 1..Len(table) : table[i].content_hash # row.content_hash

InsertPostAlways(table, row) == Append(table, row)

InsertOrIgnorePost(table, row) ==
  IF PostInsertable(table, row) THEN Append(table, row) ELSE table

\* INSERT INTO links: every column is NOT NULL; a violation fails the statement.
LinkInsertable(row) ==
  ~(IsNull(row.sessionId) \/ IsNull(row.timestamp) \/ IsNull(row.nodeId)
      \/ IsNull(row.text) \/ IsNull(row.url) \/ IsNull(row.role))

(***************************************************************************)
(* IngestionPipeline: storeSnapshotData and the POST /api/snapshots handler *)
(***************************************************************************)

cleanedPosts(data) ==
  SelectSeq(data.posts, LAMBDA p : isValidPost(p, data.url, data.platform))

SummaryTotalPostsRaw(data) == Len(data.posts)

\* cleanedPosts.length, the totalPosts bound to the summary statement.
SummaryTotalPosts(data) == Len(cleanedPosts(data))

SummaryRow(data) ==
  [sessionId |-> data.sessionId, timestamp |-> data.timestamp,
   url |-> data.url, title |-> data.title,
   totalPosts |-> SummaryTotalPosts(data),
   totalLinks |-> Len(data.links),
   totalTickers |-> 0,
   platform |-> OrElse(data.platform, <<"twitter">>)]

\* The parameters bound by postStmt.run for one cleaned post (depth and
\* backendDOMNodeId, which nothing reads, are left out).
PostRow(data, post) ==
  LET rawText == Trim(OrElse(post.text, <<>>))
      text == stripRelativeTime(rawText)
  IN [sessionId |-> data.sessionId, timestamp |-> data.timestamp,
      url |-> data.url, title |-> data.title,
      nodeId |-> post.nodeId, role |-> post.role, text |-> text,
      sentiment |-> OrElse(post.sentiment, <<"neutral">>),
      tickers |-> StringifyTickers(post.tickers),
      content_hash |-> hashPost(data.sessionId, data.url, post.nodeId, text)]

LinkRow(data, link) ==
  [sessionId |-> data.sessionId, timestamp |-> data.timestamp,
   nodeId |-> link.nodeId, text |-> link.text, url |-> link.url,
   role |-> link.role]

\* The statements storeSnapshotData queues on the database, in order: the
\* summary upsert, one insert per cleaned post, one insert per link.
storeSnapshotData(data) ==
  LET cp == cleanedPosts(data)
  IN [summaryRows |-> <<SummaryRow(data)>>,
      postRows |-> [i \in 1..Len(cp) |-> PostRow(data, cp[i])],
      linkRows |-> [i \in 1..Len(data.links) |-> LinkRow(data, data.links[i])]]

\* The argument the handler builds from the request body.
HandlerData(body) ==
  [sessionId |-> body.sessionId, timestamp |-> body.timestamp,
   url |-> body.url, title |-> body.title,
   posts |-> IF body.hasPosts THEN body.posts ELSE <<>>,
   links |-> IF body.hasLinks THEN body.links ELSE <<>>,
   platform |-> OrElse(body.socialPlatform, <<"unknown">>)]

\* app.post('/api/snapshots'): reading extractedData.posts of a body
\* without extractedData throws inside the try block, so nothing is queued
\* and the caller gets a 500; otherwise the statements are queued and the
\* caller gets success at once, before any of them has run.
HandlePost(body) ==
  IF ~body.hasExtracted
    THEN [resp |-> "error", summaryRows |-> <<>>, postRows |-> <<>>, linkRows |-> <<>>]
  ELSE LET q == storeSnapshotData(HandlerData(body))
       IN [resp |-> "success", summaryRows |-> q.summaryRows,
           postRows |-> q.postRows, linkRows |-> q.linkRows]

NumStmts(c) == Len(c.summaryRows) + Len(c.postRows) + Len(c.linkRows)

\* The handler has answered and every statement it queued has been run.
Finished(c) == Len(c.outcome) = NumStmts(c)

\* A request arrives: the handler runs to its end.
ReceiveFrom(S, maxCalls, oneAtATime) ==
  /\ Len(calls) < maxCalls
  /\ oneAtATime => \A i \in 1..Len(calls) : Finished(calls[i])
  /\ \E body \in S :
       LET h == HandlePost(body)
       IN calls' = Append(calls,
            [body |-> body, resp |-> h.resp, summaryRows |-> h.summaryRows,
             postRows |-> h.postRows, linkRows |-> h.linkRows,
             outcome |-> <<>>,
             before |-> [snapshots |-> snapshots, posts |-> posts, links |-> links]])
  /\ UNCHANGED <<snapshots, posts, links, dbUp, upsertLog>>

\* The database runs the next queued statement of call i.  Each statement
\* is atomic; its result is "applied", "ignored" (INSERT OR IGNORE skipped
\* the row) or "failed" (a constraint or storage error, which is emitted on
\* the statement and reaches no caller).
DbStep(i) ==
  LET c == calls[i]
      k == Len(c.outcome) + 1
      nS == Len(c.summaryRows)
      nP == Len(c.postRows)
  IN /\ k <= NumStmts(c)
     /\ IF ~dbUp
          THEN /\ calls' = [calls EXCEPT ![i].outcome = Append(@, "failed")]
               /\ UNCHANGED <<snapshots, posts, links, upsertLog>>
        ELSE IF k <= nS
          THEN LET row == c.summaryRows[k]
               IN IF SummaryInsertable(row)
                    THEN /\ snapshots' = UpsertSummary(snapshots, row)
                         /\ upsertLog' = Append(upsertLog, i)
                         /\ calls' = [calls EXCEPT ![i].outcome = Append(@, "applied")]
                         /\ UNCHANGED <<posts, links>>
                    ELSE /\ calls' = [calls EXCEPT ![i].outcome = Append(@, "failed")]
                         /\ UNCHANGED <<snapshots, posts, links, upsertLog>>
        ELSE IF k <= nS + nP
          THEN LET row == c.postRows[k - nS]
               IN /\ posts' = InsertOrIgnorePost(posts, row)
                  /\ calls' = [calls EXCEPT ![i].outcome =
                       Append(@, IF PostInsertable(posts, row) THEN "applied" ELSE "ignored")]
                  /\ UNCHANGED <<snapshots, links, upsertLog>>
        ELSE LET row == c.linkRows[k - nS - nP]
             IN IF LinkInsertable(row)
                  THEN /\ links' = Append(links, row)
                       /\ calls' = [calls EXCEPT ![i].outcome = Append(@, "applied")]
                       /\ UNCHANGED <<snapshots, posts, upsertLog>>
                  ELSE /\ calls' = [calls EXCEPT ![i].outcome = Append(@, "failed")]
                       /\ UNCHANGED <<snapshots, posts, links, upsertLog>>
     /\ UNCHANGED dbUp

\* The storage becomes unavailable (disk full, file locked or removed).
StorageOutage ==
  /\ dbUp
  /\ dbUp' = FALSE
  /\ UNCHANGED <<snapshots, posts, links, calls, upsertLog>>

(***************************************************************************)
(* TickerAggregator: GET /api/tickers and getSentimentLabel                *)
(***************************************************************************)

\* Timestamps are ISO-8601 strings of one format, which SQLite compares as
\* text and new Date() as instants: both orders are the order of the days.
DayIndex(ts) ==
  CASE ts = <<"2024-01-01">> -> 1
    [] ts = <<"2024-01-02">> -> 2
    [] ts = <<"2024-01-03">> -> 3
    [] OTHER -> 0

\* url LIKE 'https://x.com/%': LIKE ignores the case of ASCII letters and
\* the pattern is a prefix of the stored string, character by character.
LikePrefix(url, prefix) ==
  /\ Len(url) >= Len(prefix)
  /\ toLowerCase(SubSeq(url, 1, Len(prefix))) = prefix

\* The url condition of the WHERE clause.
RowUrlMatches(row) ==
  \/ LikePrefix(row.url, <<"https", "://", "x.com", "/">>)
  \/ LikePrefix(row.url, <<"https", "://", "twitter.com", "/">>)

\* The WHERE clause of the ranking query, for the cutoff since.
Qualifies(row, since) ==
  /\ DayIndex(row.timestamp) >= DayIndex(since)
  /\ row.tickers # <<"[", "]">>
  /\ row.role = <<"article">>
  /\ RowUrlMatches(row)

\* ticker.replace('$', ''): a string pattern replaces its first occurrence.
RemoveFirst(cs, d) ==
  LET at == {k \in 1..Len(cs) : cs[k] = d}
  IN IF at = {} THEN cs
     ELSE SubSeq(cs, 1, Min(at) - 1) \o SubSeq(cs, Min(at) + 1, Len(cs))

cleanTicker(ticker) == toUpperCase(RemoveFirst(ticker, "$"))

\* The body of tickers.forEach for one ticker string: tickerStats is kept
\* as the sequence of the Map's values in insertion order.
CountTicker(stats, symbol, row) ==
  LET known == {k \in 1..Len(stats) : stats[k].symbol = symbol}
      base == IF known = {}
                THEN Append(stats, [symbol |-> symbol, totalMentions |-> 0,
                                    bullishCount |-> 0, bearishCount |-> 0,
                                    neutralCount |-> 0, lastMention |-> row.timestamp])
                ELSE stats
      k == CHOOSE k \in 1..Len(base) : base[k].symbol = symbol
      e == base[k]
  IN [base EXCEPT ![k] =
        [symbol |-> e.symbol,
         totalMentions |-> e.totalMentions + 1,
         bullishCount |-> e.bullishCount + (IF row.sentiment = <<"bullish">> THEN 1 ELSE 0),
         bearishCount |-> e.bearishCount + (IF row.sentiment = <<"bearish">> THEN 1 ELSE 0),
         neutralCount |-> e.neutralCount
            + (IF row.sentiment \in {<<"bullish">>, <<"bearish">>} THEN 0 ELSE 1),
         lastMention |-> IF DayIndex(row.timestamp) > DayIndex(e.lastMention)
                           THEN row.timestamp ELSE e.lastMention]]

RECURSIVE ForEachTicker(_, _, _, _)
\* tickers.forEach(...): an element that is no string has no replace
\* method, the TypeError ends the loop and the catch block swallows it; the
\* tickers counted before it stay counted.
ForEachTicker(stats, arr, k, row) ==
  IF k > Len(arr) THEN stats
  ELSE IF arr[k].t # "str" THEN stats
  ELSE ForEachTicker(CountTicker(stats, cleanTicker(arr[k].v), row), arr, k + 1, row)

\* The try block for one row: JSON.parse(row.ticker_json || '[]') and the
\* loop; a SyntaxError, or a parsed value without forEach, skips the row.
ProcessRow(stats, row) ==
  LET parsed == JsonParse(OrElse(JsonExtractRoot(row.tickers), <<"[", "]">>))
  IN IF parsed.t # "arr" THEN stats
     ELSE ForEachTicker(stats, parsed.arr, 1, row)

RECURSIVE ProcessRows(_, _, _)
ProcessRows(stats, rows, k) ==
  IF k > Len(rows) THEN stats
  ELSE ProcessRows(ProcessRow(stats, rows[k]), rows, k + 1)

RECURSIVE SortByMentions(_)
\* Array.prototype.sort((a, b) => b.totalMentions - a.totalMentions): stable.
SortByMentions(stats) ==
  IF Len(stats) <= 1 THEN stats
  ELSE LET rest == SortByMentions(SubSeq(stats, 1, Len(stats) - 1))
           x == stats[Len(stats)]
           before == {k \in 1..Len(rest) : rest[k].totalMentions >= x.totalMentions}
           n == IF before = {} THEN 0 ELSE Max(before)
       IN SubSeq(rest, 1, n) \o <<x>> \o SubSeq(rest, n + 1, Len(rest))

getSentimentLabelBearishFirst(bullish, bearish, neutral) ==
  LET total == bullish + bearish + neutral
  IN IF total = 0 THEN "Unknown"
     ELSE IF bearish * 100 > 60 * total THEN "Very Bearish"
     ELSE IF bearish * 100 > 40 * total THEN "Bearish"
     ELSE IF bullish * 100 > 60 * total THEN "Very Bullish"
     ELSE IF bullish * 100 > 40 * total THEN "Bullish"
     ELSE "Neutral"

\* (bullish / total) * 100 > 60 in doubles decides as bullish * 100 > 60 * total
\* does in integers (compared for every total below 400).
getSentimentLabel(bullish, bearish, neutral) ==
  LET total == bullish + bearish + neutral
  IN IF total = 0 THEN "Unknown"
     ELSE IF bullish * 100 > 60 * total THEN "Very Bullish"
     ELSE IF bullish * 100 > 40 * total THEN "Bullish"
     ELSE IF bearish * 100 > 60 * total THEN "Very Bearish"
     ELSE IF bearish * 100 > 40 * total THEN "Bearish"
     ELSE "Neutral"

\* (bullishCount - bearishCount) / totalMentions || 0, as the fraction
\* num/den: NaN (0/0) and 0 are falsy and give 0.
sentimentScore(bullish, bearish, total) ==
  IF total = 0 \/ bullish = bearish THEN [num |-> 0, den |-> 1]
  ELSE [num |-> bullish - bearish, den |-> total]

\* The .map(...) after the sort.
Ranked(stats) ==
  LET sorted == SortByMentions(stats)
  IN [k \in 1..Len(sorted) |->
        [symbol |-> sorted[k].symbol,
         totalMentions |-> sorted[k].totalMentions,
         bullishCount |-> sorted[k].bullishCount,
         bearishCount |-> sorted[k].bearishCount,
         neutralCount |-> sorted[k].neutralCount,
         lastMention |-> sorted[k].lastMention,
         rank |-> k,
         sentimentScore |-> sentimentScore(sorted[k].bullishCount,
                              sorted[k].bearishCount, sorted[k].totalMentions),
         sentimentLabel |-> getSentimentLabel(sorted[k].bullishCount,
                              sorted[k].bearishCount, sorted[k].neutralCount)]]

\* The rows the query may return for a table: the qualifying rows, newest
\* first; rows of one timestamp come in an order SQLite does not fix.
ScanOrders(table, since) ==
  LET Q == {i \in 1..Len(table) : Qualifies(table[i], since)}
      n == Cardinality(Q)
  IN {f \in [1..n -> Q] :
        /\ \A a, b \in 1..n : a # b => f[a] # f[b]
        /\ \A a, b \in 1..n :
             a < b => DayIndex(table[f[a]].timestamp) >= DayIndex(table[f[b]].timestamp)}

\* The response of GET /api/tickers for the rows scanned in the order f.
RankResponse(table, f) ==
  Ranked(ProcessRows(<<>>, [k \in 1..Len(f) |-> table[f[k]]], 1))

(***************************************************************************)
(* Request bodies the model draws from                                     *)
(***************************************************************************)

UrlX == <<"https", "://", "x.com", "/", "home">>
UrlTwitter == <<"https", "://", "twitter.com", "/", "home">>
UrlHttp == <<"http", "://", "x.com", "/", "home">>
UrlUpper == <<"HTTPS", "://", "X.COM", "/", "home">>
UrlNoPath == <<"https", "://", "x.com">>
UrlPort == <<"https", "://", "x.com", ":443", "/", "home">>
UrlEvil == <<"https", "://", "evil.com", "/", "home">>
UrlSub == <<"https", "://", "sub.x.com", "/", "home">>
UrlUserinfo == <<"https", "://", "x.com", "@", "evil.com", "/">>
UrlRelative == <<"x.com", "/", "home">>

Day1 == <<"2024-01-01">>
Day2 == <<"2024-01-02">>
Day3 == <<"2024-01-03">>

PostGm == RawPost(<<"n1">>, <<"article">>, <<"gm">>, <<"bullish">>, NoTickers)
\* The same node with a relative time appended: the sanitized text, and so
\* the fingerprint, is that of PostGm.
PostGmAged == RawPost(<<"n1">>, <<"article">>, <<"gm", " ", "2h">>, <<"bearish">>, NoTickers)
PostWagmi == RawPost(<<"n2">>, <<"article">>, <<" ", "wagmi", "\n", "2h">>, Absent, NoTickers)
PostLinkRole == RawPost(<<"n3">>, <<"link">>, <<"gm">>, <<"neutral">>, NoTickers)
PostErrorPage == RawPost(<<"n4">>, <<"article">>, <<"REFUSED TO CONNECT">>, Absent, NoTickers)
PostBlank == RawPost(<<"n5">>, <<"article">>, <<" ">>, Absent, NoTickers)
PostNoText == RawPost(<<"n6">>, <<"article">>, Absent, Absent, NoTickers)
\* A null entry of the posts array: every property read gives undefined.
PostNull == RawPost(Absent, Absent, Absent, Absent, NoTickers)
\* A post that passes validation and has no nodeId (NULL in a NOT NULL column).
PostNoNode == RawPost(Absent, <<"article">>, <<"ngmi">>, Absent, NoTickers)

\* Posts whose whole text is a relative time: they pass validation (the
\* trimmed text is not empty) and the sanitizer leaves nothing of it.
PostTimeOnly == RawPost(<<"n7">>, <<"article">>, <<"2h">>, Absent, NoTickers)
PostJustNow == RawPost(<<"n8">>, <<"article">>, <<" ", "just now", "\n">>, <<"bullish">>, NoTickers)

LinkA == RawLink(<<"l1">>, <<"gm">>, <<"https", "://", "x.com", "/", "a">>, <<"link">>)
LinkNoUrl == RawLink(<<"l2">>, <<"gm">>, Absent, <<"link">>)

SnapMixed ==
  Snapshot(<<"s1">>, Day1, UrlX, <<"Home">>, <<"twitter">>,
           <<PostGm, PostLinkRole, PostWagmi, PostGmAged, PostErrorPage>>, <<LinkA>>)
SnapLater ==
  Snapshot(<<"s1">>, Day2, UrlX, <<"Home">>, <<"Twitter">>,
           <<PostGm, PostBlank>>, <<LinkA, LinkA>>)
SnapOther ==
  Snapshot(<<"s2">>, Day1, UrlHttp, <<"Home">>, <<"twitter">>,
           <<PostGm, PostNoText>>, <<>>)
SnapEvil ==
  Snapshot(<<"s2">>, Day2, UrlEvil, <<"Home">>, <<"twitter">>, <<PostGm>>, <<LinkA>>)
SnapNoPlatform ==
  Snapshot(<<"s3">>, Day1, UrlX, <<"Home">>, Absent, <<PostGm>>, <<>>)
SnapBadLink ==
  Snapshot(<<"s3">>, Day2, UrlX, <<"Home">>, <<"twitter">>,
           <<PostWagmi, PostNoNode>>, <<LinkNoUrl>>)
SnapTimeOnly ==
  Snapshot(<<"s4">>, Day1, UrlX, <<"Home">>, <<"twitter">>,
           <<PostTimeOnly, PostGm, PostJustNow>>, <<>>)
SnapNoPosts == [SnapMixed EXCEPT !.hasPosts = FALSE, !.posts = <<>>]
SnapNoLinks == [SnapLater EXCEPT !.hasLinks = FALSE, !.links = <<>>]
SnapNoTitle == [SnapMixed EXCEPT !.title = Absent]
SnapNoSession == [SnapLater EXCEPT !.sessionId = Absent]
SnapNoExtracted ==
  [SnapMixed EXCEPT !.hasExtracted = FALSE, !.hasPosts = FALSE, !.posts = <<>>,
                    !.hasLinks = FALSE, !.links = <<>>, !.socialPlatform = Absent]

IngestSnapshots ==
  {SnapMixed, SnapLater, SnapOther, SnapEvil, SnapNoPlatform, SnapBadLink,
   SnapTimeOnly, SnapNoPosts, SnapNoLinks, SnapNoTitle, SnapNoSession,
   SnapNoExtracted}

\* Posts with ticker lists: "$b" and "b" are one symbol; "b$" carries a "$"
\* that does not lead; the array of PostMixed holds a number between two
\* strings; the tickers of PostStringTickers are a string, not an array.
PostDollarB == RawPost(<<"t1">>, <<"article">>, <<"gm">>, <<"bullish">>,
                       TickerArray(<<StrElem(<<"$", "b">>)>>))
PostBareB == RawPost(<<"t2">>, <<"article">>, <<"wagmi">>, <<"bearish">>,
                     TickerArray(<<StrElem(<<"b">>), StrElem(<<"a">>)>>))
PostInnerDollar == RawPost(<<"t3">>, <<"article">>, <<"gm">>, <<"meh">>,
                           TickerArray(<<StrElem(<<"b", "$">>)>>))
PostMixed == RawPost(<<"t4">>, <<"article">>, <<"gm">>, <<"bullish">>,
                     TickerArray(<<StrElem(<<"a">>), NumElem(<<"5">>), StrElem(<<"b">>)>>))
PostStringTickers == RawPost(<<"t5">>, <<"article">>, <<"gm">>, Absent,
                             TickerString(<<"a", "b">>))
PostEmptyTickers == RawPost(<<"t6">>, <<"article">>, <<"gm">>, <<"bullish">>,
                            TickerArray(<<>>))

TickSnapA ==
  Snapshot(<<"s1">>, Day1, UrlX, <<"Home">>, <<"twitter">>,
           <<PostDollarB, PostBareB, PostEmptyTickers>>, <<>>)
TickSnapB ==
  Snapshot(<<"s2">>, Day2, UrlUpper, <<"Home">>, <<"twitter">>,
           <<PostBareB, PostDollarB>>, <<>>)
TickSnapHttp ==
  Snapshot(<<"s3">>, Day2, UrlHttp, <<"Home">>, <<"twitter">>, <<PostDollarB>>, <<>>)
TickSnapInner ==
  Snapshot(<<"s4">>, Day3, UrlTwitter, <<"Home">>, <<"twitter">>,
           <<PostInnerDollar, PostDollarB>>, <<>>)
TickSnapMixed ==
  Snapshot(<<"s5">>, Day3, UrlX, <<"Home">>, <<"twitter">>,
           <<PostMixed, PostStringTickers>>, <<>>)

TickerSnapshots == {TickSnapA, TickSnapB, TickSnapHttp, TickSnapInner, TickSnapMixed}

Cutoffs == {Day1, Day2, Day3}

\* Two captures of one session and one of another, for concurrent ingestion.
ConcurrentSnapshots == {SnapMixed, SnapLater, SnapOther}

(***************************************************************************)
(* Probes of the pure functions, and the ranking request                   *)
(***************************************************************************)

VARIABLES
  validCall,   \* an isValidPost call: its arguments and its result
  labelCall,   \* a getSentimentLabel call: its arguments and its results
  rankCall     \* the last GET /api/tickers request and its response

vars == <<snapshots, posts, links, dbUp, calls, upsertLog, validCall, labelCall, rankCall>>

NoValidCall == [state |-> "idle", post |-> PostNull, url |-> Absent, platform |-> Absent, result |-> FALSE]
NoLabelCall == [state |-> "idle", bullish |-> 0, bearish |-> 0, neutral |-> 0, label |-> "", scoreNum |-> 0, scoreDen |-> 1]
NoRankCall == [state |-> "idle", since |-> Absent, tableLen |-> 0, scanned |-> <<>>, tickers |-> <<>>]

StoreInit ==
  /\ snapshots = <<>>
  /\ posts = <<>>
  /\ links = <<>>
  /\ dbUp = TRUE
  /\ calls = <<>>
  /\ upsertLog = <<>>

Init ==
  /\ StoreInit
  /\ validCall = NoValidCall
  /\ labelCall = NoLabelCall
  /\ rankCall = NoRankCall

(***************************************************************************)
(* Specifications                                                          *)
(***************************************************************************)

\* Number of requests in one run.
MaxCalls == 3
\* Number of requests in one run of the concurrent specification.
MaxConcurrentCalls == 2

probeVars == <<validCall, labelCall, rankCall>>

Receive == ReceiveFrom(IngestSnapshots, MaxCalls, TRUE) /\ UNCHANGED probeVars

ReceiveConcurrent == ReceiveFrom(ConcurrentSnapshots, MaxConcurrentCalls, FALSE) /\ UNCHANGED probeVars

Execute == \E i \in 1..Len(calls) : DbStep(i) /\ UNCHANGED probeVars

Outage == StorageOutage /\ UNCHANGED probeVars

\* Requests handled one after the other, each one's statements run before
\* the next request arrives.
Next == Receive \/ Execute
Spec == Init /\ [][Next]_vars

\* Requests that overlap.  The handler itself runs to its end on the single
\* JavaScript thread; what can overlap is the execution of the statements the
\* requests queued.  The database may run them in any order that keeps each
\* request's own order, one statement at a time.
NextConcurrent == ReceiveConcurrent \/ Execute
SpecConcurrent == Init /\ [][NextConcurrent]_vars

\* One request after the other, with a storage that may become unavailable.
NextOutage == Receive \/ Execute \/ Outage
SpecOutage == Init /\ [][NextOutage]_vars

\* Inputs of the isValidPost probe.
ProbePosts ==
  {PostGm, PostGmAged, PostWagmi, PostLinkRole, PostErrorPage, PostBlank,
   PostNoText, PostNull,
   RawPost(<<"n7">>, <<"article">>, <<"gm", " ", "This site cant be reached">>, Absent, NoTickers),
   RawPost(<<"n8">>, <<"article">>, <<"Checking the connection", "\n", "gm">>, Absent, NoTickers),
   RawPost(<<"n9">>, <<"article">>, <<"DNS address not found">>, Absent, NoTickers),
   RawPost(<<"n10">>, <<"article">>, <<"This site can't be reached">>, Absent, NoTickers),
   RawPost(<<"n11">>, <<"Article">>, <<"gm">>, Absent, NoTickers)}

ProbeUrls ==
  {UrlX, UrlTwitter, UrlHttp, UrlUpper, UrlNoPath, UrlPort, UrlEvil, UrlSub,
   UrlUserinfo, UrlRelative, <<>>, Absent}

ProbePlatforms == {<<"twitter">>, <<"Twitter">>, <<"unknown">>, <<"twitter", " ">>, <<>>, Absent}

\* Largest count of one sentiment in the getSentimentLabel probe.
MaxCount == 5
\* Number of snapshots ingested in one run of the ranking specification.
MaxRankCalls == 2

ValidInit ==
  /\ StoreInit /\ labelCall = NoLabelCall /\ rankCall = NoRankCall
  /\ validCall \in [state : {"input"}, post : ProbePosts, url : ProbeUrls,
                    platform : ProbePlatforms, result : {FALSE}]

\* isValidPost is called on the drawn arguments.
ApplyIsValid ==
  /\ validCall.state = "input"
  /\ validCall' = [validCall EXCEPT !.state = "done",
                     !.result = isValidPost(validCall.post, validCall.url, validCall.platform)]
  /\ UNCHANGED <<snapshots, posts, links, dbUp, calls, upsertLog, labelCall, rankCall>>

SpecValid == ValidInit /\ [][ApplyIsValid]_vars

LabelInit ==
  /\ StoreInit /\ validCall = NoValidCall /\ rankCall = NoRankCall
  /\ labelCall \in [state : {"input"}, bullish : 0..MaxCount, bearish : 0..MaxCount,
                    neutral : 0..MaxCount, label : {""}, scoreNum : {0}, scoreDen : {1}]

\* The ranking's map step on one ticker's counts: sentimentScore and
\* getSentimentLabel.
ApplyLabel ==
  /\ labelCall.state = "input"
  /\ LET b == labelCall.bullish
         be == labelCall.bearish
         n == labelCall.neutral
         sc == sentimentScore(b, be, b + be + n)
     IN labelCall' = [labelCall EXCEPT !.state = "done",
                        !.label = getSentimentLabel(b, be, n),
                        !.scoreNum = sc.num, !.scoreDen = sc.den]
  /\ UNCHANGED <<snapshots, posts, links, dbUp, calls, upsertLog, validCall, rankCall>>

SpecLabel == LabelInit /\ [][ApplyLabel]_vars

\* GET /api/tickers: the query, the aggregation and the response.  The query
\* is queued on the same database behind the statements of the requests
\* already handled.  since
\* is the cutoff the handler derives from days; scanned lists the rowids
\* of the rows the query returned, in their order.
Rank ==
  /\ \A i \in 1..Len(calls) : Finished(calls[i])
  /\ \E since \in Cutoffs :
       \E f \in ScanOrders(posts, since) :
         rankCall' = [state |-> "done", since |-> since, tableLen |-> Len(posts),
                      scanned |-> f, tickers |-> RankResponse(posts, f)]
  /\ UNCHANGED <<snapshots, posts, links, dbUp, calls, upsertLog, validCall, labelCall>>

ReceiveTickers ==
  /\ rankCall.state = "idle"
  /\ ReceiveFrom(TickerSnapshots, MaxRankCalls, TRUE)
  /\ UNCHANGED probeVars

\* Snapshots are ingested one after the other, then the ranking is asked for.
NextRank == ReceiveTickers \/ Execute \/ Rank
SpecRank == Init /\ [][NextRank]_vars

(***************************************************************************)
(* Claims about ingestion                                                  *)
(***************************************************************************)

\* The posts table when call i had finished (requests one after the other).
PostsAfter(i) == IF i = Len(calls) THEN posts ELSE calls[i + 1].before.posts

\* Outcomes of the post inserts of call c that have run.
PostOutcomes(c) ==
  {c.outcome[k] : k \in {k \in 1..Len(c.outcome) :
      k > Len(c.summaryRows) /\ k <= Len(c.summaryRows) + Len(c.postRows)}}

\* C1: ingesting the same snapshot a second time, right after the first,
\* leaves the posts table exactly as the first ingestion left it, and every
\* post insert of the second run is skipped.
C1_Idempotent ==
  \A i \in 2..Len(calls) :
    (Finished(calls[i]) /\ calls[i].body = calls[i - 1].body)
      => /\ PostsAfter(i) = calls[i].before.posts
         /\ PostOutcomes(calls[i]) \subseteq {"ignored"}

\* C1 witness: a store that already holds posts, then a snapshot that adds
\* post rows, then the same snapshot again, finished.
C1_Witness ==
  /\ Len(calls) = 3
  /\ Finished(calls[3])
  /\ calls[3].body = calls[2].body
  /\ Len(calls[2].before.posts) > 0
  /\ Len(calls[3].before.posts) > Len(calls[2].before.posts)
  /\ Len(calls[3].postRows) > 1

\* The snapshot has every required field, and every post that passes
\* validation carries a nodeId.
WellFormed(body) ==
  /\ body.hasExtracted /\ body.hasPosts /\ body.hasLinks
  /\ body.sessionId # Absent /\ body.timestamp # Absent
  /\ body.url # Absent /\ body.title # Absent
  /\ \A k \in 1..Len(body.posts) :
       isValidPost(body.posts[k], body.url, body.socialPlatform)
         => body.posts[k].nodeId # Absent

ValidIndexes(body) ==
  {k \in 1..Len(body.posts) : isValidPost(body.posts[k], body.url, body.socialPlatform)}

Fingerprint(body, p) ==
  hashPost(body.sessionId, body.url, p.nodeId, stripRelativeTime(Trim(p.text)))

StoredHashes(table) == {table[j].content_hash : j \in 1..Len(table)}

FreshFingerprints(c) ==
  {Fingerprint(c.body, c.body.posts[k]) : k \in ValidIndexes(c.body)}
    \ StoredHashes(c.before.posts)

LacksRequired(body) ==
  \/ ~body.hasExtracted \/ ~body.hasPosts \/ ~body.hasLinks
  \/ body.sessionId = Absent \/ body.timestamp = Absent
  \/ body.url = Absent \/ body.title = Absent

\* C3: a snapshot that lacks posts or a required field ends in an error
\* reported to the caller, and none of its statements writes a row.
C3_MalformedRejected ==
  \A i \in 1..Len(calls) :
    (Finished(calls[i]) /\ LacksRequired(calls[i].body))
      => /\ calls[i].resp = "error"
         /\ \A k \in 1..Len(calls[i].outcome) : calls[i].outcome[k] # "applied"

\* C4: a finished ingestion has applied all of its statements or none, and
\* one that applied some and failed others has reported an error.
C4_AllOrNothing ==
  \A i \in 1..Len(calls) :
    Finished(calls[i])
      => LET o == calls[i].outcome
             someApplied == \E k \in 1..Len(o) : o[k] = "applied"
             someFailed == \E k \in 1..Len(o) : o[k] = "failed"
         IN /\ ~(someApplied /\ someFailed)
            /\ (someApplied /\ someFailed) => calls[i].resp = "error"

\* C11: every row of the posts table has non-empty text, also when the
\* validated text was nothing but a relative time such as "2h" or
\* "just now" before the sanitizer ran over it.
C11_StoredTextNonEmpty ==
  \A j \in 1..Len(posts) : posts[j].text # Absent /\ posts[j].text # <<>>

\* The call whose summary upsert for session s was applied last.
LastUpsert(s) ==
  upsertLog[Max({k \in 1..Len(upsertLog) : calls[upsertLog[k]].body.sessionId = s})]

\* C5: in every state at most one summary row per sessionId and no two
\* post rows with one content_hash; and when every call has finished, the
\* summary row of a session is the one of the upsert applied last.
C5_ConcurrentSafe ==
  /\ \A i, j \in 1..Len(snapshots) :
       snapshots[i].sessionId = snapshots[j].sessionId => i = j
  /\ \A i, j \in 1..Len(posts) :
       posts[i].content_hash = posts[j].content_hash => i = j
  /\ (\A i \in 1..Len(calls) : Finished(calls[i]))
       => \A k \in 1..Len(upsertLog) :
            LET s == calls[upsertLog[k]].body.sessionId
            IN \E j \in 1..Len(snapshots) :
                 snapshots[j] = calls[LastUpsert(s)].summaryRows[1]

\* C5 witness: two overlapping ingestions of one session with different
\* summaries, both finished, the later request's upsert applied first.
C5_Witness ==
  /\ Len(calls) = 2
  /\ Finished(calls[1]) /\ Finished(calls[2])
  /\ calls[1].body.sessionId = calls[2].body.sessionId
  /\ calls[1].summaryRows # calls[2].summaryRows
  /\ upsertLog = <<2, 1>>
  /\ Len(posts) >= 2

(***************************************************************************)
(* Claims about validation and ranking                                     *)
(***************************************************************************)

\* The URLs of the probe that are absolute and whose host is x.com or twitter.com.
AllowedHostUrls == {UrlX, UrlTwitter, UrlHttp, UrlUpper, UrlNoPath, UrlPort}
\* The URLs of the probe that new URL() rejects.
UnparseableUrls == {UrlRelative, <<>>, Absent}
\* The phrases of the text vocabulary that are browser-error signatures.
ErrorPhrases ==
  {"REFUSED TO CONNECT", "refused to connect", "This site can't be reached",
   "This site cant be reached", "Checking the connection", "DNS address not found"}

NonEmptyAfterTrim(text) ==
  text # Absent /\ \E i \in 1..Len(text) : text[i] \notin {" ", "\n"}

\* C6: isValidPost returns true exactly when the platform is "twitter" in
\* any case, the URL is absolute with host x.com or twitter.com, the role
\* is "article", the text is non-empty after trimming and holds no
\* browser-error signature; it returns false for an absent platform, an
\* unparseable URL and an absent post or text.
C6_ValidIff ==
  validCall.state = "done"
    => LET v == validCall
       IN /\ v.result = TRUE <=>
               /\ v.platform \in {<<"twitter">>, <<"Twitter">>}
               /\ v.url \in AllowedHostUrls
               /\ v.post.role = <<"article">>
               /\ NonEmptyAfterTrim(v.post.text)
               /\ \A i \in 1..Len(v.post.text) : v.post.text[i] \notin ErrorPhrases
          /\ (v.platform = Absent \/ v.url \in UnparseableUrls
                \/ v.post = PostNull \/ v.post.text = Absent) => v.result = FALSE

\* C6 witness: a post with surrounding white space and a relative time is
\* accepted for an upper-case URL and a capitalised platform.
C6_Witness ==
  /\ validCall.state = "done"
  /\ validCall.result = TRUE
  /\ validCall.url = UrlUpper
  /\ validCall.platform = <<"Twitter">>
  /\ validCall.post = PostWagmi

\* Normalization as the claim states it: a leading "$" is stripped, then
\* the symbol is upper-cased.
StripLeadingDollar(cs) == IF Len(cs) >= 1 /\ cs[1] = "$" THEN Tail(cs) ELSE cs
Normalized(cs) == toUpperCase(StripLeadingDollar(cs))

\* A stored ticker field is well formed when it is the JSON text of an
\* array of strings.
WellFormedTickers(row) ==
  LET parsed == JsonParse(row.tickers)
  IN parsed.t = "arr" /\ \A k \in 1..Len(parsed.arr) : parsed.arr[k].t = "str"

\* The rows scanned by the last ranking request, in scan order.
ScannedRows == [k \in 1..Len(rankCall.scanned) |-> posts[rankCall.scanned[k]]]

\* The ticker occurrences (row k, position m) of the scanned rows with
\* well-formed ticker fields.
Occurrences ==
  {<<k, m>> \in (1..Len(ScannedRows)) \X (1..3) :
     /\ WellFormedTickers(ScannedRows[k])
     /\ m <= Len(JsonParse(ScannedRows[k].tickers).arr)}

OccurrenceSymbol(o) == Normalized(JsonParse(ScannedRows[o[1]].tickers).arr[o[2]].v)

\* C7: the ranking holds exactly one entry per normalized symbol (leading
\* "$" stripped, upper-cased), whose totalMentions is the number of ticker
\* occurrences that normalize to it, and whose three sentiment counts add
\* up to totalMentions.
C7_OnePerSymbol ==
  (rankCall.state = "done" /\ \A k \in 1..Len(ScannedRows) : WellFormedTickers(ScannedRows[k]))
    => LET out == rankCall.tickers
       IN /\ \A a, b \in 1..Len(out) : out[a].symbol = out[b].symbol => a = b
          /\ {out[a].symbol : a \in 1..Len(out)} = {OccurrenceSymbol(o) : o \in Occurrences}
          /\ \A a \in 1..Len(out) :
               /\ out[a].totalMentions =
                    Cardinality({o \in Occurrences : OccurrenceSymbol(o) = out[a].symbol})
               /\ out[a].bullishCount + out[a].bearishCount + out[a].neutralCount
                    = out[a].totalMentions

\* C8: a scanned post whose ticker field is malformed contributes nothing:
\* the ranking is the one the other scanned posts alone would give.
C8_MalformedIgnored ==
  rankCall.state = "done"
    => rankCall.tickers =
         Ranked(ProcessRows(<<>>, SelectSeq(ScannedRows, WellFormedTickers), 1))

\* C10: the posts scanned by the ranking are exactly the stored posts at or
\* after the cutoff with role "article", a non-empty ticker list and a URL
\* whose host is x.com or twitter.com.
C10_ScansAllowedHosts ==
  rankCall.state = "done"
    => {rankCall.scanned[k] : k \in 1..Len(rankCall.scanned)}
         = {i \in 1..rankCall.tableLen :
              /\ DayIndex(posts[i].timestamp) >= DayIndex(rankCall.since)
              /\ posts[i].role = <<"article">>
              /\ posts[i].tickers # <<"[", "]">>
              /\ isAllowedUrl(posts[i].url)}

\* Percent shares as the claim states them: more than 60% is more than
\* three fifths, more than 40% more than two fifths.
ClaimedLabel(b, be, n) ==
  LET total == b + be + n
  IN CASE total = 0 -> "Unknown"
       [] total > 0 /\ 5 * b > 3 * total -> "Very Bullish"
       [] total > 0 /\ 5 * b <= 3 * total /\ 5 * b > 2 * total -> "Bullish"
       [] total > 0 /\ 5 * b <= 2 * total /\ 5 * be > 3 * total -> "Very Bearish"
       [] total > 0 /\ 5 * b <= 2 * total /\ 5 * be <= 3 * total /\ 5 * be > 2 * total -> "Bearish"
       [] OTHER -> "Neutral"

\* C9: the label follows the fixed order Unknown, Very Bullish (> 60%),
\* Bullish (> 40%), Very Bearish (> 60%), Bearish (> 40%), Neutral, with
\* strict thresholds; 3 bullish, 1 bearish, 0 neutral give "Very Bullish"
\* and the score (3 - 1) / 4.
C9_LabelOrder ==
  labelCall.state = "done"
    => LET c == labelCall
       IN /\ c.label = ClaimedLabel(c.bullish, c.bearish, c.neutral)
          /\ (c.bullish = 3 /\ c.bearish = 1 /\ c.neutral = 0)
               => (c.label = "Very Bullish" /\ c.scoreNum * 4 = (3 - 1) * c.scoreDen)
          /\ (c.bullish = 3 /\ c.bearish = 2 /\ c.neutral = 0) => c.label = "Bullish"
          /\ (c.bullish = 2 /\ c.bearish = 0 /\ c.neutral = 3) => c.label = "Neutral"

\* C9 witness: equal bullish and bearish shares above 40%, where the order
\* of the tests decides, labelled "Bullish".
C9_Witness ==
  /\ labelCall.state = "done"
  /\ labelCall.bullish = 2 /\ labelCall.bearish = 2 /\ labelCall.neutral = 0
  /\ labelCall.label = "Bullish"

=============================================================================
